---- MODULE Spec2Model ----
(***************************************************************************)
(* Model of the encrypted echo transport of pyk/go-challenge-2.            *)
(*                                                                         *)
(*   src/unnamed/part_000  Box (Encrypt/Decrypt), Reader, Writer, Dial,    *)
(*                         Serve, handle, main                             *)
(*   src/main.go           generateSharedKey, SecureReader, SecureWriter   *)
(*                                                                         *)
(* Byte slices are sequences of integers 0..255.  The NaCl primitives the  *)
(* code calls (box.GenerateKey, box.Precompute, box.Seal, box.Open) are    *)
(* modelled by a small cipher with the same shape: a symmetric shared key  *)
(* computed from (private key, peer public key), a keystream added to the  *)
(* plaintext, and a 16-byte authenticator over key, nonce and ciphertext   *)
(* that is recomputed and compared on Open.                                *)
(***************************************************************************)
EXTENDS Integers, Sequences, FiniteSets, TLC

\* ------------------------------------------------------------------------
\* Program constants
\* ------------------------------------------------------------------------
KeySize == 32
NonceSize == 24
Overhead == 16
MAX_BUFFER == 1024

\* ------------------------------------------------------------------------
\* Bounds of the model
\* ------------------------------------------------------------------------
\* key pairs the entropy source can produce
NumKeyPairs == 2
\* I/O operations that may fail in one run
MaxFaults == 1
\* logical Writes a user of Client makes on one connection
MaxWrites == 2

KeyIds == 1..NumKeyPairs

\* ------------------------------------------------------------------------
\* Byte-slice helpers
\* ------------------------------------------------------------------------
Min(a, b) == IF a < b THEN a ELSE b
Max(a, b) == IF a < b THEN b ELSE a

Nil == <<>>
NoErr == "nil"
ErrDecrypt == "Decrypt: cannot decrypt the message"
ErrInvalidKeyPair == "errInvalidKeyPair"
ErrRand == "rand: read failed"
ErrIO == "io error"
ErrEOF == "EOF"

Zeros(n) == [i \in 1..n |-> 0]

\* s[lo:] with 0-based lo, for lo <= len(s)
SliceFrom(s, lo) == SubSeq(s, lo + 1, Len(s))
\* s[:hi]
SliceTo(s, hi) == SubSeq(s, 1, hi)

\* copy(dst, src): min(len(dst), len(src)) bytes are copied
CopyCount(dst, src) == Min(Len(dst), Len(src))
Copy(dst, src) == SliceTo(src, CopyCount(dst, src)) \o SliceFrom(dst, CopyCount(dst, src))

\* the sum of the bytes s[lo..hi], byte i weighted by 1 + w * (i - 1)
RECURSIVE SumRange(_, _, _, _)
SumRange(s, w, lo, hi) ==
    IF lo > hi THEN 0
    ELSE IF lo = hi THEN (1 + w * (lo - 1)) * s[lo]
    ELSE SumRange(s, w, lo, (lo + hi) \div 2)
             + SumRange(s, w, (lo + hi) \div 2 + 1, hi)

\* the sum of the bytes of s
SumSeq(s) == SumRange(s, 0, 1, Len(s))

\* the sum of the bytes of s, byte i weighted by i
WeightedSum(s) == SumRange(s, 1, 1, Len(s))

\* bytes.Trim(p, "\x00"): s without its leading and trailing zero bytes
Trim(s) ==
    LET nz == {i \in 1..Len(s) : s[i] # 0}
    IN  IF nz = {}
        THEN <<>>
        ELSE SubSeq(s, CHOOSE i \in nz : \A j \in nz : i <= j,
                       CHOOSE i \in nz : \A j \in nz : j <= i)

\* ------------------------------------------------------------------------
\* The cryptographic primitives (golang.org/x/crypto/nacl/box)
\* ------------------------------------------------------------------------
\* box.GenerateKey: key pair number k of the entropy source
GenerateKey(k) ==
    [pub  |-> [i \in 1..KeySize |-> k],
     priv |-> [i \in 1..KeySize |-> k + 100]]

\* the public key that belongs to a private key
PublicOf(priv) == [i \in 1..KeySize |-> priv[i] - 100]

\* symmetric and injective on unordered pairs
Pair(x, y) == (Max(x, y) * (Max(x, y) + 1)) \div 2 + Min(x, y)

\* box.Precompute: the same value for (privA, pubB) and (privB, pubA)
Precompute(pub, priv) == [i \in 1..KeySize |-> Pair(pub[i], PublicOf(priv)[i])]

KeyStream(key, nonce, i) ==
    (key[1] + key[KeySize] + nonce[1] + nonce[NonceSize] + i) % 256

Authenticator(body, nonce, key) ==
    LET sk == SumSeq(key)
        sn == SumSeq(nonce)
        sb == SumSeq(body)
        wb == WeightedSum(body)
    IN  << key[1], key[KeySize], sk \div 256, sk % 256,
           nonce[1], nonce[NonceSize], sn \div 256, sn % 256,
           Len(body) % 256, (sb \div 256) % 256, sb % 256,
           (wb \div 256) % 256, wb % 256,
           IF body = <<>> THEN 0 ELSE body[1],
           IF body = <<>> THEN 0 ELSE body[Len(body)],
           (sn + sb + key[1]) % 256 >>

\* box.SealAfterPrecomputation(out, m, nonce, key): out ++ tag ++ ciphertext
SealAfterPrecomputation(out, m, nonce, key) ==
    LET body == [i \in 1..Len(m) |-> (m[i] + KeyStream(key, nonce, i)) % 256]
    IN  out \o Authenticator(body, nonce, key) \o body

\* OpenAfterPrecomputation as it would be if it did not compare the
\* authenticator
OpenAfterPrecomputation_Unauthenticated(c, nonce, key) ==
    IF Len(c) < Overhead
    THEN [ok |-> FALSE, dm |-> <<>>]
    ELSE LET tag  == SliceTo(c, Overhead)
             body == SliceFrom(c, Overhead)
         IN  IF Len(tag) = Overhead
             THEN [ok |-> TRUE,
                   dm |-> [i \in 1..Len(body) |->
                              (body[i] + 256 - KeyStream(key, nonce, i)) % 256]]
             ELSE [ok |-> FALSE, dm |-> <<>>]

\* box.OpenAfterPrecomputation(nil, c, nonce, key)
OpenAfterPrecomputation(c, nonce, key) ==
    IF Len(c) < Overhead
    THEN [ok |-> FALSE, dm |-> <<>>]
    ELSE LET tag  == SliceTo(c, Overhead)
             body == SliceFrom(c, Overhead)
         IN  IF tag = Authenticator(body, nonce, key)
             THEN [ok |-> TRUE,
                   dm |-> [i \in 1..Len(body) |->
                              (body[i] + 256 - KeyStream(key, nonce, i)) % 256]]
             ELSE [ok |-> FALSE, dm |-> <<>>]

\* box.Seal(out, m, nonce, peersPublicKey, privateKey)
Seal(out, m, nonce, peers, priv) ==
    SealAfterPrecomputation(out, m, nonce, Precompute(peers, priv))

\* box.Open(nil, c, nonce, peersPublicKey, privateKey)
Open(c, nonce, peers, priv) ==
    OpenAfterPrecomputation(c, nonce, Precompute(peers, priv))

\* the nonces rand.Read can fill in
NonceOf(a) == [i \in 1..NonceSize |-> IF i = 1 THEN a ELSE a + 1]
Nonces == {NonceOf(0), NonceOf(5)}

\* outcome of rand.Read(nonce[:])
RandOutcomes == [err : {NoErr}, nonce : Nonces]
                    \cup {[err |-> ErrRand, nonce |-> Zeros(NonceSize)]}
RandOk == {r \in RandOutcomes : r.err = NoErr}

\* ------------------------------------------------------------------------
\* src/unnamed/part_000: Box
\* ------------------------------------------------------------------------
NewBoxKeys(pub, peers, priv) ==
    [PublicKey |-> pub, PeersPublicKey |-> peers, privateKey |-> priv]

\* the zero Box
NoBox == NewBoxKeys(Nil, Nil, Nil)

\* NewBox with key pair k of the entropy source (the error case returns NoBox)
NewBox(k) == NewBoxKeys(GenerateKey(k).pub, Nil, GenerateKey(k).priv)

\* Box.Encrypt(m) with rnd the outcome of rand.Read
Encrypt(b, m, rnd) ==
    IF rnd.err # NoErr
    THEN [em |-> Nil, err |-> rnd.err, panic |-> FALSE]
    ELSE IF b.PeersPublicKey = Nil
    THEN [em |-> Nil, err |-> NoErr, panic |-> TRUE]
    ELSE [em |-> Seal(rnd.nonce, m, rnd.nonce, b.PeersPublicKey, b.privateKey),
          err |-> NoErr, panic |-> FALSE]

\* Decrypt as it would be if it opened with the box's own public key
Decrypt_OwnPublicKey(b, em) ==
    IF Len(em) < NonceSize \/ b.PeersPublicKey = Nil
    THEN [m |-> Nil, err |-> NoErr, panic |-> TRUE]
    ELSE LET nonce == SliceTo(em, NonceSize)
             o     == Open(SliceFrom(em, NonceSize), nonce, b.PublicKey, b.privateKey)
         IN  IF o.ok
             THEN [m |-> o.dm, err |-> NoErr, panic |-> FALSE]
             ELSE [m |-> Nil, err |-> ErrDecrypt, panic |-> FALSE]

\* Box.Decrypt(em)
Decrypt(b, em) ==
    IF Len(em) < NonceSize \/ b.PeersPublicKey = Nil
    THEN [m |-> Nil, err |-> NoErr, panic |-> TRUE]
    ELSE LET nonce == SliceTo(em, NonceSize)
             o     == Open(SliceFrom(em, NonceSize), nonce, b.PeersPublicKey, b.privateKey)
         IN  IF o.ok
             THEN [m |-> o.dm, err |-> NoErr, panic |-> FALSE]
             ELSE [m |-> Nil, err |-> ErrDecrypt, panic |-> FALSE]

\* ------------------------------------------------------------------------
\* The underlying stream calls
\* ------------------------------------------------------------------------
\* r.rd.Read(p) that delivered `chunk` with error `err`
UnderRead(p, chunk, err) ==
    [n |-> Len(chunk), err |-> err, p |-> Copy(p, chunk)]

\* ------------------------------------------------------------------------
\* src/unnamed/part_000: Reader and Writer
\* ------------------------------------------------------------------------
\* Reader.Read as it would be if it returned early only when the underlying
\* read delivered nothing
ReaderRead_DecryptDelivered(bx, p, chunk, rerr) ==
    LET u == UnderRead(p, chunk, rerr)
    IN  IF u.err # NoErr /\ u.n = 0
        THEN [n |-> u.n, err |-> u.err, p |-> u.p, panic |-> FALSE, calls |-> <<"read">>]
        ELSE LET d == Decrypt(bx, SliceTo(u.p, u.n))
             IN  IF d.panic
                 THEN [n |-> u.n, err |-> NoErr, p |-> u.p, panic |-> TRUE, calls |-> <<"read">>]
                 ELSE IF d.err # NoErr
                 THEN [n |-> u.n, err |-> d.err, p |-> u.p, panic |-> FALSE,
                       calls |-> <<"read", "open">>]
                 ELSE [n |-> CopyCount(u.p, d.m), err |-> NoErr, p |-> Copy(u.p, d.m),
                       panic |-> FALSE, calls |-> <<"read", "open">>]

\* Reader.Read(p)
ReaderRead(bx, p, chunk, rerr) ==
    LET u == UnderRead(p, chunk, rerr)
    IN  IF u.err # NoErr
        THEN [n |-> u.n, err |-> u.err, p |-> u.p, panic |-> FALSE, calls |-> <<"read">>]
        ELSE LET d == Decrypt(bx, SliceTo(u.p, u.n))
             IN  IF d.panic
                 THEN [n |-> u.n, err |-> NoErr, p |-> u.p, panic |-> TRUE, calls |-> <<"read">>]
                 ELSE IF d.err # NoErr
                 THEN [n |-> u.n, err |-> d.err, p |-> u.p, panic |-> FALSE,
                       calls |-> <<"read", "open">>]
                 ELSE [n |-> CopyCount(u.p, d.m), err |-> NoErr, p |-> Copy(u.p, d.m),
                       panic |-> FALSE, calls |-> <<"read", "open">>]

\* Writer.Write as it would be if it returned the number of plaintext bytes
WriterWrite_PlaintextLength(bx, p, rnd, werr) ==
    LET e == Encrypt(bx, p, rnd)
    IN  IF e.panic
        THEN [n |-> 0, err |-> NoErr, out |-> Nil, panic |-> TRUE, calls |-> <<"seal">>]
        ELSE IF e.err # NoErr
        THEN [n |-> 0, err |-> e.err, out |-> Nil, panic |-> FALSE, calls |-> <<>>]
        ELSE IF werr # NoErr
        THEN [n |-> 0, err |-> werr, out |-> Nil, panic |-> FALSE,
              calls |-> <<"seal", "write">>]
        ELSE [n |-> Len(p), err |-> NoErr, out |-> e.em, panic |-> FALSE,
              calls |-> <<"seal", "write">>]

\* Writer.Write(p): rnd is the outcome of rand.Read, werr that of w.wr.Write(em)
WriterWrite(bx, p, rnd, werr) ==
    LET e == Encrypt(bx, p, rnd)
    IN  IF e.panic
        THEN [n |-> 0, err |-> NoErr, out |-> Nil, panic |-> TRUE, calls |-> <<"seal">>]
        ELSE IF e.err # NoErr
        THEN [n |-> 0, err |-> e.err, out |-> Nil, panic |-> FALSE, calls |-> <<>>]
        ELSE IF werr # NoErr
        THEN [n |-> 0, err |-> werr, out |-> Nil, panic |-> FALSE,
              calls |-> <<"seal", "write">>]
        ELSE [n |-> Len(e.em), err |-> NoErr, out |-> e.em, panic |-> FALSE,
              calls |-> <<"seal", "write">>]

\* ------------------------------------------------------------------------
\* src/main.go: SecureReader and SecureWriter
\* ------------------------------------------------------------------------
generateSharedKey(priv, pub) == Precompute(pub, priv)

\* SecureReader.Read(p)
SecureReaderRead(key, p, chunk, rerr) ==
    LET u == UnderRead(p, chunk, rerr)
    IN  IF u.err # NoErr
        THEN [n |-> u.n, err |-> u.err, p |-> u.p, panic |-> FALSE, calls |-> <<"read">>]
        ELSE LET em == Trim(u.p)
             IN  IF Len(em) < NonceSize
                 THEN [n |-> u.n, err |-> NoErr, p |-> u.p, panic |-> TRUE, calls |-> <<"read">>]
                 ELSE LET o == OpenAfterPrecomputation(SliceFrom(em, NonceSize),
                                                       SliceTo(em, NonceSize), key)
                      IN  IF o.ok
                          THEN [n |-> CopyCount(u.p, o.dm), err |-> NoErr,
                                p |-> Copy(u.p, o.dm), panic |-> FALSE,
                                calls |-> <<"read", "open">>]
                          ELSE [n |-> -1, err |-> ErrInvalidKeyPair, p |-> u.p,
                                panic |-> FALSE, calls |-> <<"read", "open">>]

\* SecureWriter.Write as it would be if it handed the nonce and the sealed
\* message to the underlying writer in two calls
SecureWriterWrite_TwoWrites(key, p, rnd, werr) ==
    IF rnd.err # NoErr
    THEN [n |-> 0, err |-> rnd.err, out |-> Nil, panic |-> FALSE, calls |-> <<>>]
    ELSE LET em == SealAfterPrecomputation(rnd.nonce, p, rnd.nonce, key)
         IN  IF werr # NoErr
             THEN [n |-> 0, err |-> werr, out |-> Nil, panic |-> FALSE,
                   calls |-> <<"seal", "write">>]
             ELSE [n |-> Len(em), err |-> NoErr, out |-> em, panic |-> FALSE,
                   calls |-> <<"seal", "write", "write">>]

\* SecureWriter.Write(p)
SecureWriterWrite(key, p, rnd, werr) ==
    IF rnd.err # NoErr
    THEN [n |-> 0, err |-> rnd.err, out |-> Nil, panic |-> FALSE, calls |-> <<>>]
    ELSE LET em == SealAfterPrecomputation(rnd.nonce, p, rnd.nonce, key)
         IN  IF werr # NoErr
             THEN [n |-> 0, err |-> werr, out |-> Nil, panic |-> FALSE,
                   calls |-> <<"seal", "write">>]
             ELSE [n |-> Len(em), err |-> NoErr, out |-> em, panic |-> FALSE,
                   calls |-> <<"seal", "write">>]

\* ------------------------------------------------------------------------
\* Inputs
\* ------------------------------------------------------------------------
Hello == <<104, 101, 108, 108, 111>>
Long == [i \in 1..NonceSize |-> 65]
\* os.Args[2] / the plaintexts handed to Write
Messages == {<<>>, Hello, Long}

\* connections the responder can be offered in one run
Conns == {1, 2}

\* sizes below the full amount that one read of the stream may deliver
Segments == {1, 16}
ReadSizes(avail, cap) ==
    {Min(avail, cap)} \cup {k \in Segments : k < Min(avail, cap)}

\* ------------------------------------------------------------------------
\* State
\* ------------------------------------------------------------------------
VARIABLES
    lpc,      \* Serve: "accept" (in the loop) or "returned"
    backlog,  \* connections dialed and not yet returned by Accept
    cpc,      \* initiator: position in Dial / main, per connection
    cbx,      \* initiator: bx of Dial
    cres,     \* initiator: buf, n, err of main's Read and n of its Write
    msg,      \* initiator: os.Args[2]
    cconn,    \* initiator's socket: "none", "open", "closed"
    spc,      \* responder: position in handle, per connection
    sbx,      \* responder: bx of handle
    sp,       \* responder: p[:n] handed to s.wr.Write
    sconn,    \* accepted socket: "none", "open", "closed"
    c2s,      \* bytes in flight from initiator to responder
    s2c,      \* bytes in flight from responder to initiator
    faults,   \* I/O operations that have failed so far
    hist,     \* history of each connection's handshake
    hpc,      \* codec harness: position
    hin,      \* codec harness: inputs
    hwire,    \* codec harness: the frame between writer and reader
    hres      \* codec harness: results

protoVars == <<lpc, backlog, cpc, cbx, cres, msg, cconn, spc, sbx, sp, sconn,
               c2s, s2c, faults, hist>>
codecVars == <<hpc, hin, hwire, hres>>
vars == <<lpc, backlog, cpc, cbx, cres, msg, cconn, spc, sbx, sp, sconn,
          c2s, s2c, faults, hist, hpc, hin, hwire, hres>>

\* sent, frames: the plaintexts the initiator has written and their frames;
\* reqs: the plaintexts handle has read; resps: the frames it has written
NoHist == [short |-> FALSE, cfail |-> FALSE, sfail |-> FALSE,
           cread |-> FALSE, cwrote |-> FALSE, swrote |-> FALSE, sread |-> FALSE,
           sent |-> <<>>, frames |-> <<>>, reqs |-> <<>>, resps |-> <<>>]
NoRes == [buf |-> <<>>, n |-> 0, err |-> NoErr, wn |-> 0]

ProtoStart ==
    /\ lpc = "accept"
    /\ backlog = {}
    /\ cbx = [c \in Conns |-> NoBox]
    /\ cres = [c \in Conns |-> NoRes]
    /\ cconn = [c \in Conns |-> "none"]
    /\ spc = [c \in Conns |-> "idle"]
    /\ sbx = [c \in Conns |-> NoBox]
    /\ sp = [c \in Conns |-> <<>>]
    /\ sconn = [c \in Conns |-> "none"]
    /\ c2s = [c \in Conns |-> <<>>]
    /\ s2c = [c \in Conns |-> <<>>]
    /\ faults = 0
    /\ hist = [c \in Conns |-> NoHist]

CodecOff ==
    /\ hpc = "off"
    /\ hin = <<>>
    /\ hwire = <<>>
    /\ hres = <<>>

\* the initiator processes cs are started, each with its own os.Args[2]
Started(cs) ==
    /\ cpc = [c \in Conns |-> IF c \in cs THEN "dial" ELSE "absent"]
    /\ msg \in [Conns -> Messages]
    /\ \A c \in Conns \ cs : msg[c] = <<>>

\* one initiator against the responder
Init ==
    /\ ProtoStart
    /\ Started({1})
    /\ CodecOff

\* ------------------------------------------------------------------------
\* The environment: entropy source, stream, processes
\* ------------------------------------------------------------------------
\* the entropy source gives every call of NewBox a key pair of its own:
\* the one of Dial on connection c, and the one of handle on connection c
DialKey(c) == 2 * c - 1
HandleKey(c) == 2 * c

MayFail == faults < MaxFaults

\* the responder process runs: Serve has not returned and no goroutine panicked
ServerUp == lpc = "accept" /\ \A c \in Conns : spc[c] # "panic"

\* the initiator process has ended
ClientEnded(c) == cpc[c] \in {"dial_failed", "fatal", "printed", "panic"}

\* conn.Read(b) on a stream holding `q`, whose far end is gone iff `gone`:
\* the results (chunk, error, short) the call may return
ConnRead(q, cap, gone) ==
    IF cap = 0
    THEN {[chunk |-> <<>>, err |-> NoErr, short |-> FALSE, fault |-> FALSE]}
    ELSE {[chunk |-> SliceTo(q, n), err |-> NoErr,
           short |-> n < Min(Len(q), cap), fault |-> FALSE] :
              n \in IF q = <<>> THEN {} ELSE ReadSizes(Len(q), cap)}
         \cup (IF gone /\ q = <<>>
               THEN {[chunk |-> <<>>, err |-> ErrEOF, short |-> FALSE, fault |-> FALSE]}
               ELSE {})
         \cup (IF MayFail
               THEN {[chunk |-> <<>>, err |-> ErrIO, short |-> FALSE, fault |-> TRUE]}
               ELSE {})

\* conn.Write(b): the errors the call may return
ConnWrite == {NoErr} \cup (IF MayFail THEN {ErrIO} ELSE {})

\* rand.Read(nonce[:]) inside Encrypt
RandRead == RandOk \cup (IF MayFail THEN RandOutcomes \ RandOk ELSE {})

Bump(b) == IF b THEN faults + 1 ELSE faults

\* a 32-byte key array holding the n bytes that were read
PeersKey(chunk) == Copy(Zeros(KeySize), chunk)

\* ------------------------------------------------------------------------
\* src/unnamed/part_000: Dial
\* ------------------------------------------------------------------------
\* net.Dial("tcp", addr)
DialConnect(c) ==
    /\ cpc[c] = "dial"
    /\ \/ /\ ServerUp
          /\ cpc' = [cpc EXCEPT ![c] = "newbox"]
          /\ cconn' = [cconn EXCEPT ![c] = "open"]
          /\ backlog' = backlog \cup {c}
          /\ UNCHANGED faults
       \/ /\ MayFail \/ ~ServerUp
          /\ cpc' = [cpc EXCEPT ![c] = "dial_failed"]
          /\ faults' = Bump(ServerUp)
          /\ UNCHANGED <<cconn, backlog>>
    /\ UNCHANGED <<lpc, cbx, cres, msg, spc, sbx, sp, sconn, c2s, s2c, hist>>
    /\ UNCHANGED codecVars

\* bx, err := NewBox()
DialNewBox(c) ==
    /\ cpc[c] = "newbox"
    /\ \/ /\ cbx' = [cbx EXCEPT ![c] = NewBox(DialKey(c))]
          /\ cpc' = [cpc EXCEPT ![c] = "recv_key"]
          /\ UNCHANGED faults
       \/ /\ MayFail
          /\ cpc' = [cpc EXCEPT ![c] = "dial_failed"]
          /\ faults' = faults + 1
          /\ UNCHANGED cbx
    /\ UNCHANGED <<lpc, backlog, cres, msg, cconn, spc, sbx, sp, sconn, c2s, s2c, hist>>
    /\ UNCHANGED codecVars

\* Dial as it would be if it read the peer's key and did not store it in bx
DialRecvKey_KeyNotStored(c) ==
    /\ cpc[c] = "recv_key"
    /\ \E r \in ConnRead(s2c[c], KeySize, ~ServerUp) :
          /\ cbx' = cbx
          /\ s2c' = [s2c EXCEPT ![c] = SliceFrom(@, Len(r.chunk))]
          /\ faults' = Bump(r.fault)
          /\ hist' = [hist EXCEPT ![c].short = @ \/ r.short,
                                  ![c].cfail = @ \/ r.err # NoErr,
                                  ![c].cread = TRUE]
    /\ cpc' = [cpc EXCEPT ![c] = "send_key"]
    /\ UNCHANGED <<lpc, backlog, cres, msg, cconn, spc, sbx, sp, sconn, c2s>>
    /\ UNCHANGED codecVars

\* n, err := conn.Read(key); copy(peersKey[:], key[:n]); bx.PeersPublicKey = &peersKey
\* (err is overwritten by the Write that follows and never looked at)
DialRecvKey(c) ==
    /\ cpc[c] = "recv_key"
    /\ \E r \in ConnRead(s2c[c], KeySize, ~ServerUp) :
          /\ cbx' = [cbx EXCEPT ![c].PeersPublicKey = PeersKey(r.chunk)]
          /\ s2c' = [s2c EXCEPT ![c] = SliceFrom(@, Len(r.chunk))]
          /\ faults' = Bump(r.fault)
          /\ hist' = [hist EXCEPT ![c].short = @ \/ r.short,
                                  ![c].cfail = @ \/ r.err # NoErr,
                                  ![c].cread = TRUE]
    /\ cpc' = [cpc EXCEPT ![c] = "send_key"]
    /\ UNCHANGED <<lpc, backlog, cres, msg, cconn, spc, sbx, sp, sconn, c2s>>
    /\ UNCHANGED codecVars

\* n, err = conn.Write(bx.PublicKey[:]); on success Dial returns the Client
DialSendKey(c) ==
    /\ cpc[c] = "send_key"
    /\ \E werr \in ConnWrite :
          IF werr = NoErr
          THEN /\ c2s' = [c2s EXCEPT ![c] = @ \o cbx[c].PublicKey]
               /\ cpc' = [cpc EXCEPT ![c] = "established"]
               /\ hist' = [hist EXCEPT ![c].cwrote = TRUE]
               /\ UNCHANGED faults
          ELSE /\ cpc' = [cpc EXCEPT ![c] = "dial_failed"]
               /\ hist' = [hist EXCEPT ![c].cfail = TRUE]
               /\ faults' = faults + 1
               /\ UNCHANGED c2s
    /\ UNCHANGED <<lpc, backlog, cbx, cres, msg, cconn, spc, sbx, sp, sconn, s2c>>
    /\ UNCHANGED codecVars

\* ------------------------------------------------------------------------
\* src/unnamed/part_000: main, client mode
\* ------------------------------------------------------------------------
\* conn.Write([]byte(os.Args[2]))
MainWrite(c) ==
    /\ cpc[c] = "established"
    /\ \E rnd \in RandRead, werr \in ConnWrite :
          LET w == WriterWrite(cbx[c], msg[c], rnd, werr)
          IN  /\ cpc' = [cpc EXCEPT ![c] =
                           IF w.panic THEN "panic"
                           ELSE IF w.err # NoErr THEN "fatal" ELSE "read"]
              /\ cres' = [cres EXCEPT ![c].wn = w.n, ![c].err = w.err]
              /\ c2s' = [c2s EXCEPT ![c] = @ \o w.out]
              /\ faults' = Bump(w.err # NoErr)
              /\ hist' = IF w.panic \/ w.err # NoErr THEN hist
                         ELSE [hist EXCEPT ![c].sent = Append(@, msg[c]),
                                           ![c].frames = Append(@, w.out)]
    /\ UNCHANGED <<lpc, backlog, cbx, msg, cconn, spc, sbx, sp, sconn, s2c>>
    /\ UNCHANGED codecVars

\* buf := make([]byte, len(os.Args[2])); n, err := conn.Read(buf)
MainRead(c) ==
    /\ cpc[c] = "read"
    /\ \E u \in ConnRead(s2c[c], Len(msg[c]), ~ServerUp) :
          LET r == ReaderRead(cbx[c], Zeros(Len(msg[c])), u.chunk, u.err)
          IN  /\ cpc' = [cpc EXCEPT ![c] =
                           IF r.panic THEN "panic"
                           ELSE IF r.err # NoErr THEN "fatal" ELSE "printed"]
              /\ cres' = [cres EXCEPT ![c].buf = r.p, ![c].n = r.n, ![c].err = r.err]
              /\ s2c' = [s2c EXCEPT ![c] = SliceFrom(@, Len(u.chunk))]
              /\ faults' = Bump(u.fault)
              /\ hist' = [hist EXCEPT ![c].short = @ \/ u.short]
    /\ UNCHANGED <<lpc, backlog, cbx, msg, cconn, spc, sbx, sp, sconn, c2s>>
    /\ UNCHANGED codecVars

\* ------------------------------------------------------------------------
\* src/unnamed/part_000: Client, as any user of the package calls it
\* ------------------------------------------------------------------------
\* the i-th message the user writes: three different ones in turn
Request(i) == <<Hello, <<>>, Long>>[((i - 1) % 3) + 1]

\* Client.Write(p)
ClientWrite(c) ==
    /\ cpc[c] = "established"
    /\ Len(hist[c].sent) < MaxWrites
    /\ \E rnd \in RandRead, werr \in ConnWrite :
          LET m == Request(Len(hist[c].sent) + 1)
              w == WriterWrite(cbx[c], m, rnd, werr)
          IN  /\ cpc' = [cpc EXCEPT ![c] =
                           IF w.panic THEN "panic"
                           ELSE IF w.err # NoErr THEN "fatal" ELSE "established"]
              /\ c2s' = [c2s EXCEPT ![c] = @ \o w.out]
              /\ faults' = Bump(w.err # NoErr)
              /\ hist' = IF w.panic \/ w.err # NoErr THEN hist
                         ELSE [hist EXCEPT ![c].sent = Append(@, m),
                                           ![c].frames = Append(@, w.out)]
    /\ UNCHANGED <<lpc, backlog, cbx, cres, msg, cconn, spc, sbx, sp, sconn, s2c>>
    /\ UNCHANGED codecVars

\* Client.Close()
ClientClose(c) ==
    /\ cpc[c] = "established"
    /\ cpc' = [cpc EXCEPT ![c] = "closed"]
    /\ cconn' = [cconn EXCEPT ![c] = "closed"]
    /\ UNCHANGED <<lpc, backlog, cbx, cres, msg, spc, sbx, sp, sconn, c2s, s2c,
                   faults, hist>>
    /\ UNCHANGED codecVars

\* Somebody who is not the peer puts bytes on the stream to the responder: a
\* frame sealed for the handler's public key with a key pair of his own.
ForeignBox(c) ==
    NewBoxKeys(GenerateKey(DialKey(c) + 2).pub, sbx[c].PublicKey,
               GenerateKey(DialKey(c) + 2).priv)

StreamInject(c) ==
    /\ sconn[c] = "open"
    /\ sbx[c].PublicKey # Nil
    /\ MayFail
    /\ c2s' = [c2s EXCEPT ![c] =
                  @ \o Encrypt(ForeignBox(c), Hello, [err |-> NoErr, nonce |-> NonceOf(5)]).em]
    /\ faults' = faults + 1
    /\ UNCHANGED <<lpc, backlog, cpc, cbx, cres, msg, cconn, spc, sbx, sp, sconn, s2c,
                   hist>>
    /\ UNCHANGED codecVars

\* the initiator process ends (return from main, log.Fatal or panic): the
\* operating system closes its socket
ClientExit(c) ==
    /\ ClientEnded(c)
    /\ cconn[c] = "open"
    /\ cconn' = [cconn EXCEPT ![c] = "closed"]
    /\ UNCHANGED <<lpc, backlog, cpc, cbx, cres, msg, spc, sbx, sp, sconn, c2s, s2c,
                   faults, hist>>
    /\ UNCHANGED codecVars

\* ------------------------------------------------------------------------
\* src/unnamed/part_000: Serve
\* ------------------------------------------------------------------------
\* the responder process ends: every socket it holds is closed
AllClosed == [c \in Conns |-> IF sconn[c] = "open" THEN "closed" ELSE sconn[c]]

\* client, err := l.Accept(); go handle(client)
ServeAccept ==
    /\ ServerUp
    /\ \E c \in backlog :
          /\ backlog' = backlog \ {c}
          /\ spc' = [spc EXCEPT ![c] = "newbox"]
          /\ sconn' = [sconn EXCEPT ![c] = "open"]
    /\ UNCHANGED <<lpc, cpc, cbx, cres, msg, cconn, sbx, sp, c2s, s2c, faults, hist>>
    /\ UNCHANGED codecVars

\* l.Accept() returns an error: Serve returns it and main ends in log.Fatal
ServeAcceptError ==
    /\ ServerUp
    /\ MayFail
    /\ lpc' = "returned"
    /\ faults' = faults + 1
    /\ sconn' = AllClosed
    /\ UNCHANGED <<backlog, cpc, cbx, cres, msg, cconn, spc, sbx, sp, c2s, s2c, hist>>
    /\ UNCHANGED codecVars

\* ------------------------------------------------------------------------
\* src/unnamed/part_000: handle
\* ------------------------------------------------------------------------
\* handle as it would be if it read the peer's key before writing its own
HandleNewBox_ReadFirst(c) ==
    /\ ServerUp
    /\ spc[c] = "newbox"
    /\ \/ /\ sbx' = [sbx EXCEPT ![c] = NewBox(HandleKey(c))]
          /\ spc' = [spc EXCEPT ![c] = "recv_key"]
          /\ UNCHANGED faults
       \/ /\ MayFail
          /\ spc' = [spc EXCEPT ![c] = "done"]
          /\ faults' = faults + 1
          /\ UNCHANGED sbx
    /\ UNCHANGED <<lpc, backlog, cpc, cbx, cres, msg, cconn, sp, sconn, c2s, s2c, hist>>
    /\ UNCHANGED codecVars

\* bx, err := NewBox()
HandleNewBox(c) ==
    /\ ServerUp
    /\ spc[c] = "newbox"
    /\ \/ /\ sbx' = [sbx EXCEPT ![c] = NewBox(HandleKey(c))]
          /\ spc' = [spc EXCEPT ![c] = "send_key"]
          /\ UNCHANGED faults
       \/ /\ MayFail
          /\ spc' = [spc EXCEPT ![c] = "done"]
          /\ faults' = faults + 1
          /\ UNCHANGED sbx
    /\ UNCHANGED <<lpc, backlog, cpc, cbx, cres, msg, cconn, sp, sconn, c2s, s2c, hist>>
    /\ UNCHANGED codecVars

\* n, err := client.Write(bx.PublicKey[:])
HandleSendKey(c) ==
    /\ ServerUp
    /\ spc[c] = "send_key"
    /\ \E werr \in ConnWrite :
          IF werr = NoErr
          THEN /\ s2c' = [s2c EXCEPT ![c] = @ \o sbx[c].PublicKey]
               /\ spc' = [spc EXCEPT ![c] = "recv_key"]
               /\ hist' = [hist EXCEPT ![c].swrote = TRUE]
               /\ UNCHANGED faults
          ELSE /\ spc' = [spc EXCEPT ![c] = "done"]
               /\ hist' = [hist EXCEPT ![c].sfail = TRUE]
               /\ faults' = faults + 1
               /\ UNCHANGED s2c
    /\ UNCHANGED <<lpc, backlog, cpc, cbx, cres, msg, cconn, sbx, sp, sconn, c2s>>
    /\ UNCHANGED codecVars

\* handle as it would be if bx were one package-level Box shared by all the
\* goroutines: the peer key read on one connection lands in every handler's box
HandleRecvKey_SharedBox(c) ==
    /\ ServerUp
    /\ spc[c] = "recv_key"
    /\ \E r \in ConnRead(c2s[c], KeySize, cconn[c] = "closed") :
          /\ c2s' = [c2s EXCEPT ![c] = SliceFrom(@, Len(r.chunk))]
          /\ faults' = Bump(r.fault)
          /\ IF r.err # NoErr
             THEN /\ spc' = [spc EXCEPT ![c] = "done"]
                  /\ hist' = [hist EXCEPT ![c].sfail = TRUE]
                  /\ UNCHANGED sbx
             ELSE /\ sbx' = [d \in Conns |->
                             IF sbx[d].PublicKey = Nil THEN sbx[d]
                             ELSE [sbx[d] EXCEPT !.PeersPublicKey = PeersKey(r.chunk)]]
                  /\ spc' = [spc EXCEPT ![c] = "loop_read"]
                  /\ hist' = [hist EXCEPT ![c].short = @ \/ r.short,
                                          ![c].sread = TRUE]
    /\ UNCHANGED <<lpc, backlog, cpc, cbx, cres, msg, cconn, sp, sconn, s2c>>
    /\ UNCHANGED codecVars

\* n, err = client.Read(key); copy(peersKey[:], key[:n]); bx.PeersPublicKey = &peersKey
HandleRecvKey(c) ==
    /\ ServerUp
    /\ spc[c] = "recv_key"
    /\ \E r \in ConnRead(c2s[c], KeySize, cconn[c] = "closed") :
          /\ c2s' = [c2s EXCEPT ![c] = SliceFrom(@, Len(r.chunk))]
          /\ faults' = Bump(r.fault)
          /\ IF r.err # NoErr
             THEN /\ spc' = [spc EXCEPT ![c] = "done"]
                  /\ hist' = [hist EXCEPT ![c].sfail = TRUE]
                  /\ UNCHANGED sbx
             ELSE /\ sbx' = [sbx EXCEPT ![c].PeersPublicKey = PeersKey(r.chunk)]
                  /\ spc' = [spc EXCEPT ![c] = "loop_read"]
                  /\ hist' = [hist EXCEPT ![c].short = @ \/ r.short,
                                          ![c].sread = TRUE]
    /\ UNCHANGED <<lpc, backlog, cpc, cbx, cres, msg, cconn, sp, sconn, s2c>>
    /\ UNCHANGED codecVars

\* handle as it would be if it went on to the next Read without writing the
\* response
HandleRead_NoResponse(c) ==
    /\ ServerUp
    /\ spc[c] = "loop_read"
    /\ \E u \in ConnRead(c2s[c], MAX_BUFFER, cconn[c] = "closed") :
          LET r == ReaderRead(sbx[c], Zeros(MAX_BUFFER), u.chunk, u.err)
          IN  /\ spc' = [spc EXCEPT ![c] =
                           IF r.panic THEN "panic"
                           ELSE IF r.err # NoErr THEN "done" ELSE "loop_read"]
              /\ sp' = [sp EXCEPT ![c] =
                          IF r.panic \/ r.err # NoErr THEN <<>> ELSE SliceTo(r.p, r.n)]
              /\ sconn' = IF r.panic THEN AllClosed ELSE sconn
              /\ c2s' = [c2s EXCEPT ![c] = SliceFrom(@, Len(u.chunk))]
              /\ faults' = Bump(u.fault)
              /\ hist' = [hist EXCEPT ![c].short = @ \/ u.short,
                                      ![c].reqs = IF r.panic \/ r.err # NoErr THEN @
                                                  ELSE Append(@, SliceTo(r.p, r.n))]
    /\ UNCHANGED <<lpc, backlog, cpc, cbx, cres, msg, cconn, sbx, s2c>>
    /\ UNCHANGED codecVars

\* p := make([]byte, MAX_BUFFER); n, err := s.rd.Read(p)
HandleRead(c) ==
    /\ ServerUp
    /\ spc[c] = "loop_read"
    /\ \E u \in ConnRead(c2s[c], MAX_BUFFER, cconn[c] = "closed") :
          LET r == ReaderRead(sbx[c], Zeros(MAX_BUFFER), u.chunk, u.err)
          IN  /\ spc' = [spc EXCEPT ![c] =
                           IF r.panic THEN "panic"
                           ELSE IF r.err # NoErr THEN "done" ELSE "loop_write"]
              /\ sp' = [sp EXCEPT ![c] =
                          IF r.panic \/ r.err # NoErr THEN <<>> ELSE SliceTo(r.p, r.n)]
              /\ sconn' = IF r.panic THEN AllClosed ELSE sconn
              /\ c2s' = [c2s EXCEPT ![c] = SliceFrom(@, Len(u.chunk))]
              /\ faults' = Bump(u.fault)
              /\ hist' = [hist EXCEPT ![c].short = @ \/ u.short,
                                      ![c].reqs = IF r.panic \/ r.err # NoErr THEN @
                                                  ELSE Append(@, SliceTo(r.p, r.n))]
    /\ UNCHANGED <<lpc, backlog, cpc, cbx, cres, msg, cconn, sbx, s2c>>
    /\ UNCHANGED codecVars

\* n, err = s.wr.Write(p[:n])
HandleWrite(c) ==
    /\ ServerUp
    /\ spc[c] = "loop_write"
    /\ \E rnd \in RandRead, werr \in ConnWrite :
          LET w == WriterWrite(sbx[c], sp[c], rnd, werr)
          IN  /\ spc' = [spc EXCEPT ![c] =
                           IF w.panic THEN "panic"
                           ELSE IF w.err # NoErr THEN "done" ELSE "loop_read"]
              /\ sconn' = IF w.panic THEN AllClosed ELSE sconn
              /\ s2c' = [s2c EXCEPT ![c] = @ \o w.out]
              /\ faults' = Bump(w.err # NoErr)
              /\ hist' = IF w.panic \/ w.err # NoErr THEN hist
                         ELSE [hist EXCEPT ![c].resps = Append(@, w.out)]
    /\ UNCHANGED <<lpc, backlog, cpc, cbx, cres, msg, cconn, sbx, sp, c2s>>
    /\ UNCHANGED codecVars

\* ------------------------------------------------------------------------
\* The transport: one initiator process per connection against one responder
\* ------------------------------------------------------------------------
\* the steps of Dial, and the end of an initiator whose Dial failed
DialStep(c) ==
    \/ DialConnect(c)
    \/ DialNewBox(c)
    \/ DialRecvKey(c)
    \/ DialSendKey(c)
    \/ ClientExit(c)

\* the steps of handle up to the echo loop
HandshakeStep(c) ==
    \/ HandleNewBox(c)
    \/ HandleSendKey(c)
    \/ HandleRecvKey(c)

Next ==
    \/ \E c \in Conns : DialStep(c)
    \/ \E c \in Conns : MainWrite(c)
    \/ \E c \in Conns : MainRead(c)
    \/ ServeAccept
    \/ ServeAcceptError
    \/ \E c \in Conns : HandshakeStep(c)
    \/ \E c \in Conns : HandleRead(c)
    \/ \E c \in Conns : HandleWrite(c)

Spec == Init /\ [][Next]_vars

\* The key exchange alone: Dial against Serve and handle, up to ESTABLISHED.
HandshakeNext ==
    \/ \E c \in Conns : DialStep(c)
    \/ ServeAccept
    \/ ServeAcceptError
    \/ \E c \in Conns : HandshakeStep(c)

\* The Go scheduler runs every goroutine that can take a step, and each
\* initiator is a process of its own.
HandshakeSpec ==
    /\ Init
    /\ [][HandshakeNext]_vars
    /\ \A c \in Conns : WF_vars(DialStep(c)) /\ WF_vars(HandshakeStep(c))
    /\ WF_vars(ServeAccept)

\* Two initiators against one responder: both key exchanges and each handler's
\* first Read of its echo loop, the initiator processes and the goroutines of
\* Serve interleaved in any order.
TwoInit ==
    /\ ProtoStart
    /\ Started(Conns)
    /\ msg = [c \in Conns |-> Hello]
    /\ CodecOff

TwoNext ==
    \/ \E c \in Conns : DialStep(c)
    \/ ServeAccept
    \/ ServeAcceptError
    \/ \E c \in Conns : HandshakeStep(c)
    \/ \E c \in Conns : HandleRead(c)

TwoSpec == TwoInit /\ [][TwoNext]_vars

\* The echo loop on one established connection: the key exchange has gone
\* through without a failed operation and with whole keys; the initiator is
\* any user of Client, who writes up to MaxWrites messages and closes.
EstablishedHist ==
    [NoHist EXCEPT !.cread = TRUE, !.cwrote = TRUE, !.swrote = TRUE, !.sread = TRUE]

EchoInit ==
    /\ lpc = "accept"
    /\ backlog = {}
    /\ cpc = [c \in Conns |-> IF c = 1 THEN "established" ELSE "absent"]
    /\ cbx = [c \in Conns |->
                 IF c = 1
                 THEN [NewBox(DialKey(c)) EXCEPT
                          !.PeersPublicKey = GenerateKey(HandleKey(c)).pub]
                 ELSE NoBox]
    /\ cres = [c \in Conns |-> NoRes]
    /\ msg = [c \in Conns |-> <<>>]
    /\ cconn = [c \in Conns |-> IF c = 1 THEN "open" ELSE "none"]
    /\ spc = [c \in Conns |-> IF c = 1 THEN "loop_read" ELSE "idle"]
    /\ sbx = [c \in Conns |->
                 IF c = 1
                 THEN [NewBox(HandleKey(c)) EXCEPT
                          !.PeersPublicKey = GenerateKey(DialKey(c)).pub]
                 ELSE NoBox]
    /\ sp = [c \in Conns |-> <<>>]
    /\ sconn = [c \in Conns |-> IF c = 1 THEN "open" ELSE "none"]
    /\ c2s = [c \in Conns |-> <<>>]
    /\ s2c = [c \in Conns |-> <<>>]
    /\ faults = 0
    /\ hist = [c \in Conns |-> IF c = 1 THEN EstablishedHist ELSE NoHist]
    /\ CodecOff

EchoNext ==
    \/ \E c \in Conns : ClientWrite(c)
    \/ \E c \in Conns : ClientClose(c)
    \/ \E c \in Conns : StreamInject(c)
    \/ \E c \in Conns : HandleRead(c)
    \/ \E c \in Conns : HandleWrite(c)

EchoSpec == EchoInit /\ [][EchoNext]_vars

\* ------------------------------------------------------------------------
\* The codec and the stream adapters on their own: one Write through a
\* writer, the frame carried (and possibly damaged) by the stream, one Decrypt
\* or one Read on the other side.
\* ------------------------------------------------------------------------
Impls == {"part_000", "main.go"}

NoTamper == [kind |-> "none", at |-> 0]
NoDec == [m |-> Nil, err |-> NoErr, panic |-> FALSE]
NoHRes == [wn |-> 0, werr |-> NoErr, nonce |-> <<>>, tamper |-> NoTamper, dec |-> NoDec,
           before |-> <<>>, after |-> <<>>, n |-> 0, err |-> NoErr, panic |-> FALSE,
           uerr |-> NoErr, wcalls |-> <<>>, rcalls |-> <<>>]

\* the writer holds key pair a and the public key of b; the reader holds key
\* pair r and the public key of a
CodecInit ==
    /\ ProtoStart
    /\ Started({})
    /\ hpc = "start"
    /\ hin \in [impl : Impls, p : Messages, a : KeyIds, b : KeyIds, r : KeyIds]
    /\ hwire = <<>>
    /\ hres = NoHRes

WriterBox == NewBoxKeys(GenerateKey(hin.a).pub, GenerateKey(hin.b).pub, GenerateKey(hin.a).priv)
ReaderBox == NewBoxKeys(GenerateKey(hin.r).pub, GenerateKey(hin.a).pub, GenerateKey(hin.r).priv)
\* NewSecureWriter / NewSecureReader of main.go
WriterKey == generateSharedKey(GenerateKey(hin.a).priv, GenerateKey(hin.b).pub)
ReaderKey == generateSharedKey(GenerateKey(hin.r).priv, GenerateKey(hin.a).pub)

\* one logical Write(p)
CodecWrite ==
    /\ hpc = "start"
    /\ \E rnd \in RandOutcomes, werr \in {NoErr, ErrIO} :
          LET w == IF hin.impl = "part_000"
                   THEN WriterWrite(WriterBox, hin.p, rnd, werr)
                   ELSE SecureWriterWrite(WriterKey, hin.p, rnd, werr)
          IN  /\ hwire' = w.out
              /\ hres' = [hres EXCEPT !.wn = w.n, !.werr = w.err, !.nonce = rnd.nonce,
                                      !.wcalls = w.calls]
              /\ hpc' = IF w.err = NoErr THEN "written" ELSE "write_failed"
    /\ UNCHANGED hin
    /\ UNCHANGED protoVars

\* what the stream may do to a frame
Tampers(frame) ==
    {NoTamper}
        \cup [kind : {"truncate"},
              at : {k \in 0..(Len(frame) - 1) :
                       k <= NonceSize + Overhead \/ k = Len(frame) - 1}]
        \cup [kind : {"flip"},
              at : {1, NonceSize, NonceSize + 1, NonceSize + Overhead, Len(frame)}]

Tamper(frame, t) ==
    IF t.kind = "truncate" THEN SliceTo(frame, t.at)
    ELSE IF t.kind = "flip" THEN [frame EXCEPT ![t.at] = (@ + 1) % 256]
    ELSE frame

CodecTamper ==
    /\ hpc = "written"
    /\ \E t \in Tampers(hwire) :
          /\ hwire' = Tamper(hwire, t)
          /\ hres' = [hres EXCEPT !.tamper = t]
    /\ hpc' = "wire"
    /\ UNCHANGED hin
    /\ UNCHANGED protoVars

\* Box.Decrypt on the frame
CodecDecrypt ==
    /\ hpc = "wire"
    /\ hin.impl = "part_000"
    /\ hres' = [hres EXCEPT !.dec = Decrypt(ReaderBox, hwire)]
    /\ hpc' = "decrypted"
    /\ UNCHANGED <<hin, hwire>>
    /\ UNCHANGED protoVars

\* the lengths of the caller's buffer
BufSizes == {Len(hin.p), Len(hwire), Len(hwire) + 8}

\* how the underlying Read may fail: not at all, with no byte delivered, or
\* together with the bytes it delivers (io.Reader allows n > 0 with an error)
ReadFaults == {"none", "empty", "data"}

\* one logical Read(p) into a buffer of `size` bytes that all hold `fill`,
\* over a reader that holds the frame and nothing else
CodecRead ==
    /\ hpc = "wire"
    /\ \E size \in BufSizes, fill \in {0, 9}, fail \in ReadFaults :
          LET p0    == [i \in 1..size |-> fill]
              uerr  == IF fail # "none" THEN ErrIO
                       ELSE IF hwire = <<>> /\ size > 0 THEN ErrEOF ELSE NoErr
              chunk == IF fail = "empty" THEN <<>>
                       ELSE SliceTo(hwire, Min(size, Len(hwire)))
              r     == IF hin.impl = "part_000"
                       THEN ReaderRead(ReaderBox, p0, chunk, uerr)
                       ELSE SecureReaderRead(ReaderKey, p0, chunk, uerr)
          IN  /\ fail # "none" => (fill = 0 /\ size = Len(hwire))
              /\ hres' = [hres EXCEPT !.before = p0, !.after = r.p, !.n = r.n,
                                      !.err = r.err, !.panic = r.panic, !.uerr = uerr,
                                      !.rcalls = r.calls]
    /\ hpc' = "read"
    /\ UNCHANGED <<hin, hwire>>
    /\ UNCHANGED protoVars

CodecNext ==
    \/ CodecWrite
    \/ CodecTamper
    \/ CodecDecrypt
    \/ CodecRead

CodecSpec == CodecInit /\ [][CodecNext]_vars

\* ------------------------------------------------------------------------
\* Properties of the transport
\* ------------------------------------------------------------------------
\* Dial has returned (c, nil)
ClientEstablished(c) == cpc[c] \in {"established", "read", "printed", "fatal", "panic"}
\* handle has built rd, wr and s and is in (or has left) the echo loop
ServerEstablished(c) == sbx[c].PeersPublicKey # Nil

\* no I/O operation has failed and no read was cut short by the stream
CleanRun(c) == faults = 0 /\ ~hist[c].short

\* C1: once Dial has succeeded and main has called Write(m) and then Read into
\* a buffer of len(m) bytes, that Read returns n = len(m) with a nil error and
\* the buffer holds m, and nothing has crashed (stated for runs in which no
\* I/O operation fails and the stream cuts no read short).
C1_EndToEndEcho ==
    \A c \in Conns :
        (CleanRun(c) /\ ClientEnded(c) /\ ClientEstablished(c)) =>
            /\ cpc[c] = "printed"
            /\ cres[c].n = Len(msg[c])
            /\ cres[c].err = NoErr
            /\ cres[c].buf = msg[c]

\* C4: a failed read or write of the key exchange leaves that side aborted:
\* Dial does not return a client, handle does not enter the echo loop.
C4_HandshakeAllOrNothing ==
    \A c \in Conns :
        /\ hist[c].cfail => ~ClientEstablished(c)
        /\ hist[c].sfail => ~ServerEstablished(c)

\* C5: when no I/O operation fails, however the stream segments the bytes,
\* two established sides hold each other's public key.
C5_KeyAgreement ==
    \A c \in Conns :
        (faults = 0 /\ ClientEstablished(c) /\ ServerEstablished(c)) =>
            /\ cbx[c].PeersPublicKey = sbx[c].PublicKey
            /\ sbx[c].PeersPublicKey = cbx[c].PublicKey

\* handle writes its key before it reads, Dial reads before it writes
HandshakeOrder ==
    \A c \in Conns :
        /\ hist[c].sread => hist[c].swrote
        /\ hist[c].cwrote => hist[c].cread

BothEstablished ==
    \A c \in Conns : cpc[c] # "absent" => ClientEstablished(c) /\ ServerEstablished(c)

C10_ConnectionReleased ==
    \A c \in Conns : spc[c] = "done" => sconn[c] = "closed"

\* C19: when Dial has returned an error after net.Dial succeeded, the
\* connection net.Dial opened has been closed.
C19_FailedDialClosesConnection ==
    \A c \in Conns :
        (cpc[c] = "dial_failed" /\ cconn[c] # "none") => cconn[c] = "closed"

\* the side is at a step that calls Encrypt or Decrypt, or has called them
DialCrypto(c) == cpc[c] \in {"established", "read", "printed", "fatal", "panic"}
HandleCrypto(c) == spc[c] \in {"loop_read", "loop_write"} \/ hist[c].reqs # <<>>

PeerKeySetAtReceive ==
    \A c \in Conns :
        /\ cbx[c].PeersPublicKey # Nil <=> hist[c].cread
        /\ sbx[c].PeersPublicKey # Nil <=> hist[c].sread
        /\ DialCrypto(c) => cbx[c].PeersPublicKey # Nil
        /\ HandleCrypto(c) => sbx[c].PeersPublicKey # Nil

PeerKeySetOnce ==
    \A c \in Conns :
        /\ cbx[c].PeersPublicKey # Nil => cbx'[c].PeersPublicKey = cbx[c].PeersPublicKey
        /\ sbx[c].PeersPublicKey # Nil => sbx'[c].PeersPublicKey = sbx[c].PeersPublicKey

\* C16: on each side PeersPublicKey is nil until the receive step of the key
\* exchange has run and holds a key from then on, once it holds a key it
\* never changes, and a side that calls Encrypt or Decrypt holds a key.
C16_PeerKeyLifecycle ==
    []PeerKeySetAtReceive /\ [][PeerKeySetOnce]_vars

\* C16 witness: both sides have used their box: the initiator has written a
\* frame, the handler has decrypted it and written the response
C16_Witness ==
    /\ cpc[1] = "read"
    /\ hist[1].reqs = <<Hello>>
    /\ Len(hist[1].resps) = 1
    /\ cbx[1].PeersPublicKey = sbx[1].PublicKey
    /\ sbx[1].PeersPublicKey = cbx[1].PublicKey

\* ------------------------------------------------------------------------
\* Properties of two connections to one responder
\* ------------------------------------------------------------------------
\* the key state of connection c: the Box of its Dial and the Box of its handle
KeyState(c) == <<cbx[c], sbx[c]>>

\* the 32-byte arrays a side can hold after one Read of the key k
KeyPrefixes(k) == {PeersKey(SliceTo(k, n)) : n \in 0..Len(k)}

\* the public keys of connection c are those generated for it, and a peer key
\* is nil or was read from the other side of the same connection
OwnKeys(c) ==
    /\ cbx[c].PublicKey \in {Nil, GenerateKey(DialKey(c)).pub}
    /\ sbx[c].PublicKey \in {Nil, GenerateKey(HandleKey(c)).pub}
    /\ cbx[c].PeersPublicKey \in {Nil} \cup KeyPrefixes(sbx[c].PublicKey)
    /\ sbx[c].PeersPublicKey \in {Nil} \cup KeyPrefixes(cbx[c].PublicKey)

\* no two boxes of the run hold the same key pair
DistinctKeyPairs ==
    /\ \A c, d \in Conns :
           (cbx[c].PublicKey # Nil /\ sbx[d].PublicKey # Nil) =>
               cbx[c].PublicKey # sbx[d].PublicKey
    /\ \A c, d \in Conns :
           (c # d /\ cbx[c].PublicKey # Nil /\ cbx[d].PublicKey # Nil) =>
               cbx[c].PublicKey # cbx[d].PublicKey
    /\ \A c, d \in Conns :
           (c # d /\ sbx[c].PublicKey # Nil /\ sbx[d].PublicKey # Nil) =>
               sbx[c].PublicKey # sbx[d].PublicKey

\* frames Encrypt can make with box b: the empty message and "hello" under
\* every nonce
SealedBy(b) == {Encrypt(b, m, rnd).em : m \in {<<>>, Hello}, rnd \in RandOk}

Rejected == [m |-> Nil, err |-> ErrDecrypt, panic |-> FALSE]

\* every frame sealed by one side of connection c is rejected by the box of
\* the receiving side of connection d
CrossRejected(c, d) ==
    /\ (cbx[c].PeersPublicKey # Nil /\ sbx[d].PeersPublicKey # Nil) =>
           \A em \in SealedBy(cbx[c]) : Decrypt(sbx[d], em) = Rejected
    /\ (sbx[c].PeersPublicKey # Nil /\ cbx[d].PeersPublicKey # Nil) =>
           \A em \in SealedBy(sbx[c]) : Decrypt(cbx[d], em) = Rejected

ConnectionsIndependent ==
    /\ \A c \in Conns : OwnKeys(c)
    /\ DistinctKeyPairs
    /\ \A c, d \in Conns : c # d => CrossRejected(c, d)

\* a step that changes the key state of one connection leaves the key state
\* of every other connection as it was
OneConnectionPerStep ==
    \A c, d \in Conns :
        (c # d /\ KeyState(c)' # KeyState(c)) => KeyState(d)' = KeyState(d)

\* C11: with two initiators on one responder, in every interleaving, each
\* connection has its own key pairs and a peer key read from its own stream,
\* no step of one connection changes the key state of the other, and every
\* frame sealed on one connection is rejected with the decryption error by
\* the keys of the other.
C11_ConnectionIndependence ==
    []ConnectionsIndependent /\ [][OneConnectionPerStep]_vars

\* C11 witness: both connections are established without a failed operation
\* and with whole keys, and the handler of connection 1 opens what its own
\* initiator seals
C11_Witness ==
    /\ faults = 0
    /\ \A c \in Conns :
           /\ cpc[c] = "established"
           /\ spc[c] = "loop_read"
           /\ cbx[c].PeersPublicKey = sbx[c].PublicKey
           /\ sbx[c].PeersPublicKey = cbx[c].PublicKey
    /\ \A rnd \in RandOk :
           Decrypt(sbx[1], Encrypt(cbx[1], Hello, rnd).em).m = Hello

\* handle on connection c has ended, by a return or by a crash
HandlerEnded(c) == spc[c] \in {"done", "panic"}

\* C14: whatever way the handler of a connection has ended, as long as Accept
\* has returned no error the responder is still running: Serve goes on
\* accepting and the handlers of the other connections go on with it.
C14_AcceptLoopOutlivesConnections ==
    ((\E c \in Conns : HandlerEnded(c)) /\ lpc = "accept") => ServerUp

\* ------------------------------------------------------------------------
\* Properties of the echo loop on an established connection
\* ------------------------------------------------------------------------
\* what opening a frame written by handle on connection c gives
Carried(c, frame) ==
    Open(SliceFrom(frame, NonceSize), SliceTo(frame, NonceSize),
         sbx[c].PeersPublicKey, sbx[c].privateKey)

\* the frames one after the other
Concat(frames) ==
    LET cat[i \in 0..Len(frames)] == IF i = 0 THEN <<>> ELSE cat[i - 1] \o frames[i]
    IN  cat[Len(frames)]

EchoInOrder(c) ==
    LET reqs  == hist[c].reqs
        resps == hist[c].resps
    IN  /\ Len(resps) \in {Len(reqs), Len(reqs) - 1}
        /\ spc[c] = "loop_read" => Len(resps) = Len(reqs)
        /\ spc[c] = "loop_write" =>
               Len(resps) = Len(reqs) - 1 /\ sp[c] = reqs[Len(reqs)]
        /\ \A i \in DOMAIN resps : Carried(c, resps[i]) = [ok |-> TRUE, dm |-> reqs[i]]
        /\ s2c[c] = Concat(resps)

\* C15: on an established connection handle alternates one Read and one
\* Write: the responses written so far are, in order, one frame for each
\* request decoded, each carrying that request's plaintext; at most the last
\* request is still unanswered, and only while handle is about to write; the
\* stream to the initiator holds these response frames and nothing else.
C15_EchoInOrder == \A c \in Conns : EchoInOrder(c)

\* C15 witness: two requests have been decoded and answered in order and
\* handle is back at its Read
C15_Witness ==
    /\ spc[1] = "loop_read"
    /\ hist[1].reqs = <<Hello, <<>>>>
    /\ Len(hist[1].resps) = 2
    /\ Carried(1, hist[1].resps[1]).dm = Hello

\* s.rd.Read of handle returns without an error in this step
ReadSucceeds(c) == spc[c] = "loop_read" /\ spc'[c] = "loop_write"
\* the chunk the underlying read takes from the stream in this step
Consumed(c) == SliceTo(c2s[c], Len(c2s[c]) - Len(c2s'[c]))

\* a successful Read has taken exactly one frame of the peer from the stream
\* and returns the plaintext of the Write that made it
ReadsOneFrameOfPeer ==
    \A c \in Conns :
        ReadSucceeds(c) =>
            \E i \in DOMAIN hist[c].frames :
                /\ Consumed(c) = hist[c].frames[i]
                /\ sp'[c] = hist[c].sent[i]

\* the plaintexts read so far are the first plaintexts the peer wrote
ReadsWhatPeerWrote ==
    \A c \in Conns :
        /\ Len(hist[c].reqs) <= Len(hist[c].sent)
        /\ \A i \in DOMAIN hist[c].reqs : hist[c].reqs[i] = hist[c].sent[i]

FrameOverhead == NonceSize + Overhead

Written == hpc \in {"written", "wire", "decrypted", "read"}
\* the reader holds the key the frame was sealed for
RightKey == hin.r = hin.b
Untouched == hres.tamper = NoTamper
\* the underlying read has put the whole frame into the caller's buffer
WholeFrameRead == hpc = "read" /\ hres.uerr = NoErr /\ Len(hres.before) >= Len(hwire)
DecryptErrors == {ErrDecrypt, ErrInvalidKeyPair}

\* C2, as claimed: a successful Write(p) returns len(p), never the length of
\* the frame.
C2_WriteReturnsPlaintextLength ==
    Written => hres.wn = Len(hin.p)

\* C2, amended: a successful Write(p) of either writer returns
\* len(p) + 40, the length of the frame handed to the underlying writer.
C2_WriteReturnsFrameLength ==
    /\ Written => hres.wn = Len(hin.p) + FrameOverhead
    /\ hpc = "written" => hres.wn = Len(hwire)

\* C2 witness: Write("hello") has returned 45
C2_Witness ==
    /\ hpc = "written"
    /\ hin.p = Hello
    /\ hres.wn = 45

\* C3: when the underlying read succeeds and the chunk does not decrypt (the
\* reader holds another key, or the last byte of the frame was corrupted),
\* Read returns the decryption error and the caller's buffer is as it was.
C3_NoWriteOnDecryptionFailure ==
    (/\ WholeFrameRead
     /\ \/ Untouched /\ ~RightKey
        \/ hres.tamper = [kind |-> "flip", at |-> Len(hwire)])
        => /\ hres.err \in DecryptErrors
           /\ ~hres.panic
           /\ hres.after = hres.before

\* C8: the frame made by Encrypt with (A's private key, B's public key) is the
\* nonce followed by len(p) + 16 bytes, and Decrypt with (B's private key,
\* A's public key) returns p and no error; both sides compute one shared key.
C8_CodecRoundTrip ==
    (hpc = "decrypted" /\ Untouched /\ RightKey) =>
        /\ hres.dec = [m |-> hin.p, err |-> NoErr, panic |-> FALSE]
        /\ Len(hwire) = NonceSize + Len(hin.p) + Overhead
        /\ SliceTo(hwire, NonceSize) = hres.nonce
        /\ WriterKey = ReaderKey

\* C8 witness: "hello" sealed by A for B has been decrypted by B
C8_Witness ==
    /\ hpc = "decrypted"
    /\ Untouched
    /\ RightKey
    /\ hin.a # hin.b
    /\ hin.p = Hello
    /\ hres.dec.m = Hello

\* the frame is not one the reader's key opens
InvalidFrame == ~Untouched \/ ~RightKey

\* C9: decoding an invalid frame (cut short, a byte flipped, or sealed under
\* another key) ends in a decryption error: no crash, no plaintext.
C9_InvalidFrameIsError ==
    /\ (hpc = "decrypted" /\ InvalidFrame) =>
           hres.dec = [m |-> Nil, err |-> ErrDecrypt, panic |-> FALSE]
    /\ (WholeFrameRead /\ hin.impl = "main.go" /\ InvalidFrame) =>
           ~hres.panic /\ hres.err = ErrInvalidKeyPair

\* how often the call x was made
Count(calls, x) == Cardinality({i \in DOMAIN calls : calls[i] = x})

\* the underlying read of the logical Read returned an error
UnderlyingReadFailed == hpc = "read" /\ hres.uerr # NoErr

\* C12: when the underlying read returns an error (an I/O error, with or
\* without bytes delivered, or end of stream), Read of either reader returns
\* that same error, does not crash and has not tried to decrypt anything.
C12_ReadErrorPropagated ==
    UnderlyingReadFailed =>
        /\ hres.err = hres.uerr
        /\ Count(hres.rcalls, "open") = 0
        /\ ~hres.panic

\* C12 witness: the underlying read delivered a whole frame that the reader's
\* key opens and returned an I/O error with it; Read returned that error
C12_Witness ==
    /\ UnderlyingReadFailed
    /\ Untouched
    /\ RightKey
    /\ hin.p = Hello
    /\ hres.after = hwire
    /\ hres.err = ErrIO

\* the logical Write got its nonce from rand.Read
NonceDrawn == hpc # "start" /\ hres.werr # ErrRand
\* the logical Read got a chunk without an error and did not crash on it
ChunkRead == hpc = "read" /\ hres.uerr = NoErr /\ ~hres.panic

MatchingFrameRead ==
    /\ hin.impl = "main.go"
    /\ WholeFrameRead
    /\ Untouched
    /\ RightKey

\* C18: SecureReader.Read of src/main.go returns the plaintext of every whole
\* frame sealed with the matching key, whatever bytes the caller's buffer
\* held before the call and whatever the first and last bytes of the frame
\* are.
C18_ReadIndependentOfBufferAndBytes ==
    MatchingFrameRead =>
        /\ ~hres.panic
        /\ hres.err = NoErr
        /\ hres.n = Len(hin.p)
        /\ SliceTo(hres.after, Len(hin.p)) = hin.p

\* the logical Read has returned (n, err)
ReadReturned == hpc = "read" /\ ~hres.panic

\* C20: the n that Read(p) of either reader returns is in 0..len(p) on
\* every path, and on success it is the length of the frame minus 40.
C20_ReadCountInRange ==
    ReadReturned =>
        /\ 0 <= hres.n
        /\ hres.n <= Len(hres.before)
        /\ hres.err = NoErr => hres.n = Len(hwire) - FrameOverhead

====
